---------------------------- MODULE Spec2Model ----------------------------
(***************************************************************************)
(* A model of H5Support's H5Utilities.h: the path helpers, the group       *)
(* materializer (createGroup / createGroupsFromPath), the child listing    *)
(* (getGroupObjects), the handle lifecycle (closeHDF5Object, closeFile)    *)
(* and the opening and creation of files (openFile, createFile).           *)
(*                                                                         *)
(* The HDF5 library is the environment.  Its namespace is `tree', a        *)
(* function from node paths (sequences of link names) to node types; its   *)
(* identifiers are positive integers.  A std::string is a sequence of      *)
(* one-character strings; positions are 0-based as in C++.                 *)
(***************************************************************************)
EXTENDS Integers, Sequences, FiniteSets, TLC

VARIABLES
  path,      \* SpecPath: the std::string argument under test
  parent,    \* SpecPath: the hid_t parent argument of createGroupsFromPath
  tree,      \* SpecPath: the file's namespace, node path -> node type
  cg,        \* SpecPath: outcome of the last createGroupsFromPath call
  pf,        \* SpecPath: outcome of the last pure path function call
  fileID,    \* Spec: the caller's hid_t variable passed to closeFile by reference
  fileValid, \* Spec: whether HDF5 still holds FileHid as an open file id
  objs,      \* Spec: the object ids opened under the file, id -> [kind, open]
  call,      \* Spec: the last entry-point call, its argument and what it did
  names,     \* SpecList: the caller's std::list<std::string> given to getGroupObjects
  lst,       \* SpecList: the last getGroupObjects call
  lock,      \* SpecConc: the mutex of H5SUPPORT_MUTEX_LOCK, [owner, depth]
  thr,       \* SpecConc: per thread, the entry point it is in and what is left of it
  hOpen,     \* SpecConc: per thread, whether the object id it opened is still open
  mixed,     \* SpecConc: the first interleaving of two calls' HDF5 calls, if any
  build,     \* SpecFile: the HDF5 minor version H5Utilities.h is compiled against
  disk,      \* SpecFile: file name -> number of objects stored, Absent if no file
  files,     \* SpecFile: the open file ids, id -> [name, flags, low, high]
  fcall      \* SpecFile: the last openFile / createFile call and its HDF5 calls

pathVars == <<path, parent, tree, cg, pf>>
lifeVars == <<fileID, fileValid, objs, call>>
listVars == <<names, lst>>
concVars == <<lock, thr, hOpen, mixed>>
fileVars == <<build, disk, files, fcall>>
vars == <<pathVars, lifeVars, listVars, concVars, fileVars>>

-----------------------------------------------------------------------------
(* Bounds *)

\* longest std::string argument drawn
MaxPathLen == 5
\* createGroupsFromPath calls made in a row on one argument
MaxEnsure == 2
\* object ids opened under the file between two openings of it
MaxHandles == 2
\* links in the group that getGroupObjects lists
MaxChildren == 3
\* file ids open at once
MaxOpenFiles == 2
\* objects stored in one file
MaxObjects == 2

-----------------------------------------------------------------------------
(* std::string *)

Chars == {"/", "a", "b"}
Slash == "/"

\* std::string::npos is size_t(-1) = 2^64 - 1.  size_t values are kept as the
\* residue mod 2^64 nearest zero, so + and - are exact and npos is -1.
Npos == -1

\* unsigned comparison of two size_t residues
ULess(x, y) == IF (x < 0) = (y < 0) THEN x < y ELSE y < 0
UMin(x, y) == IF ULess(x, y) THEN x ELSE y

Strings(n) == UNION {[1..k -> Chars] : k \in 0..n}

SetMin(S) == CHOOSE x \in S : \A y \in S : x <= y
SetMax(S) == CHOOSE x \in S : \A y \in S : x >= y

\* s.find_first_of(c, from)
find_first_of(s, c, from) ==
  LET hits == {i \in 0..(Len(s) - 1) : ~ULess(i, from) /\ s[i + 1] = c}
  IN IF hits = {} THEN Npos ELSE SetMin(hits)

\* s.find_last_of(c)
find_last_of(s, c) ==
  LET hits == {i \in 0..(Len(s) - 1) : s[i + 1] = c}
  IN IF hits = {} THEN Npos ELSE SetMax(hits)

\* s.substr(pos, n): throws std::out_of_range when pos > size()
substr(s, pos, n) ==
  IF ULess(Len(s), pos)
  THEN [thrown |-> TRUE, value |-> <<>>]
  ELSE LET rlen == UMin(n, Len(s) - pos)
       IN [thrown |-> FALSE, value |-> SubSeq(s, pos + 1, pos + rlen)]

\* s.erase(pos, n): throws std::out_of_range when pos > size()
erase(s, pos, n) ==
  IF ULess(Len(s), pos)
  THEN [thrown |-> TRUE, value |-> <<>>]
  ELSE LET rlen == UMin(n, Len(s) - pos)
       IN [thrown |-> FALSE,
           value |-> SubSeq(s, 1, pos) \o SubSeq(s, pos + rlen + 1, Len(s))]

-----------------------------------------------------------------------------
(* Path helpers *)

getParentPath(objectPath) ==
  LET start == find_last_of(objectPath, Slash)
  IN erase(objectPath, start, Len(objectPath) - start)

getObjectNameFromPath(objectPath) ==
  LET end == find_last_of(objectPath, Slash)
  IN erase(objectPath, 0, end + 1)

extractObjectName(p) ==
  LET pos == find_last_of(p, Slash)
  IN IF pos = Npos \/ p = <<Slash>>
     THEN [thrown |-> FALSE, value |-> p]
     ELSE substr(p, pos + 1, Npos)

-----------------------------------------------------------------------------
(* The HDF5 namespace seen through the calls H5Utilities.h makes *)

\* H5O_type_t of a node; "dangling" is a soft link whose target is missing:
\* the link has a name, but there is no object to get info about
NodeTypes == {"group", "dataset", "datatype", "dangling"}

\* hid_t of the open file, as returned by H5Fopen / H5Fcreate
FileHid == 1
\* hid_t of a group handle the caller holds on /a
GroupHid == 2

RECURSIVE Components(_)
\* the link names of an HDF5 path name: '/' separates, empty names are skipped
Components(name) ==
  LET p == find_first_of(name, Slash, 0)
  IN IF name = <<>> THEN <<>>
     ELSE IF p = Npos THEN <<name>>
     ELSE IF p = 0 THEN Components(SubSeq(name, 2, Len(name)))
     ELSE <<SubSeq(name, 1, p)>> \o Components(SubSeq(name, p + 2, Len(name)))

\* the node a location handle stands on
LocOf(id) == IF id = GroupHid THEN <<<<"a">>>> ELSE <<>>

\* the node `name' denotes from `loc' (a leading '/' restarts at the root)
Target(loc, name) ==
  (IF name[1] = Slash THEN <<>> ELSE loc) \o Components(name)

Front(s) == SubSeq(s, 1, Len(s) - 1)

\* H5Oget_info_by_name(loc, name, &info): 0 and the node's type, or negative
H5Oget_info_by_name(t, loc, name) ==
  IF /\ name # <<>>
     /\ Target(loc, name) \in DOMAIN t
     /\ t[Target(loc, name)] # "dangling"
  THEN [err |-> 0, type |-> t[Target(loc, name)]]
  ELSE [err |-> -1, type |-> "unknown"]

\* H5Gopen(loc, name): a new group id, or negative
H5Gopen(t, loc, name) ==
  IF name # <<>> /\ Target(loc, name) \in DOMAIN t /\ t[Target(loc, name)] = "group"
  THEN [tree |-> t, gid |-> GroupHid + 1]
  ELSE [tree |-> t, gid |-> -1]

\* H5Gcreate(loc, name): links a new group under an existing group (no
\* intermediate groups are created), or negative; ans is the library's own
\* answer (a file that cannot be written to or is full fails the call)
H5Gcreate(t, loc, name, ans) ==
  LET n == Target(loc, name)
  IN IF /\ ans = "ok"
        /\ name # <<>>
        /\ n # <<>>
        /\ n \notin DOMAIN t
        /\ Front(n) \in DOMAIN t
        /\ t[Front(n)] = "group"
     THEN [tree |-> (n :> "group") @@ t, gid |-> GroupHid + 1]
     ELSE [tree |-> t, gid |-> -1]

\* H5Gclose(id)
H5Gclose(gid) == IF gid > 0 THEN 0 ELSE -1

-----------------------------------------------------------------------------
(* Group materializer *)

createGroup_alwaysCreate(t, loc, group, ans) == H5Gcreate(t, loc, group, ans)

createGroup(t, loc, group, ans) ==
  LET info == H5Oget_info_by_name(t, loc, group)
  IN IF info.err = 0
     THEN H5Gopen(t, loc, group)
     ELSE H5Gcreate(t, loc, group, ans)

\* groupID = createGroup(parent, name); if(groupID < 0) return groupID;
\* error = H5Gclose(groupID);
\* w is the call so far: the namespace, the createGroup arguments and
\* results in order, how many group ids it holds open (and the most it ever
\* held), the value it returns if it returns now, and how many more
\* H5Gcreate calls the library carries out before it starts failing them.
EnsureGroup_noClose(w, loc, name) ==
  LET After(v, r) ==
        IF r.gid < 0
        THEN [v EXCEPT !.tree = r.tree, !.calls = Append(@, name),
                       !.gids = Append(@, r.gid),
                       !.failed = TRUE, !.ret = r.gid]
        ELSE [v EXCEPT !.tree = r.tree, !.calls = Append(@, name),
                       !.gids = Append(@, r.gid),
                       !.quota = IF r.tree # v.tree THEN @ - 1 ELSE @,
                       !.open = @ + 1,
                       !.peak = IF v.open + 1 > @ THEN v.open + 1 ELSE @,
                       !.ret = 0]
      Result(v) == createGroup(v.tree, loc, name,
                               IF v.quota > 0 THEN "ok" ELSE "fail")
  IN CHOOSE x \in UNION {{After(v, r) : r \in {Result(v)}} : v \in {w}} : TRUE

\* v is the value of w and r the result of the createGroup call, each worked
\* out once
EnsureGroup(w, loc, name) ==
  LET After(v, r) ==
        IF r.gid < 0
        THEN [v EXCEPT !.tree = r.tree, !.calls = Append(@, name),
                       !.gids = Append(@, r.gid),
                       !.failed = TRUE, !.ret = r.gid]
        ELSE [v EXCEPT !.tree = r.tree, !.calls = Append(@, name),
                       !.gids = Append(@, r.gid),
                       !.quota = IF r.tree # v.tree THEN @ - 1 ELSE @,
                       !.open = IF H5Gclose(r.gid) < 0 THEN @ + 1 ELSE @,
                       !.peak = IF v.open + 1 > @ THEN v.open + 1 ELSE @,
                       !.ret = H5Gclose(r.gid)]
      Result(v) == createGroup(v.tree, loc, name,
                               IF v.quota > 0 THEN "ok" ELSE "fail")
  IN CHOOSE x \in UNION {{After(v, r) : r \in {Result(v)}} : v \in {w}} : TRUE

StripLeading(p) ==
  IF find_first_of(p, Slash, 0) = 0 THEN substr(p, 1, Len(p)).value ELSE p

StripTrailing_keep(p) == p

StripTrailing(p) ==
  LET pos == find_last_of(p, Slash)
  IN IF pos = Len(p) - 1 THEN substr(p, 0, pos).value ELSE p

RECURSIVE WalkPrefixes_goOn(_, _, _, _)
WalkPrefixes_goOn(w, loc, p, pos) ==
  IF pos = Npos
  THEN w
  ELSE LET first == substr(p, 0, pos).value
           second == substr(p, pos + 1, Len(p)).value
           w1 == EnsureGroup(w, loc, first)
           next == find_first_of(p, Slash, pos + 1)
       IN IF next = Npos
          THEN EnsureGroup(w1, loc, first \o <<Slash>> \o second)
          ELSE WalkPrefixes_goOn(w1, loc, p, next)

RECURSIVE WalkPrefixes(_, _, _, _)
\* the while(pos != npos) loop
WalkPrefixes(w, loc, p, pos) ==
  IF pos = Npos
  THEN w
  ELSE LET first == substr(p, 0, pos).value
           second == substr(p, pos + 1, Len(p)).value
           w1 == EnsureGroup(w, loc, first)
           next == find_first_of(p, Slash, pos + 1)
       IN IF w1.failed THEN w1
          ELSE IF next = Npos
               THEN EnsureGroup(w1, loc, first \o <<Slash>> \o second)
               ELSE WalkPrefixes(w1, loc, p, next)

createGroupsFromPath(pathToCheck, par, t, quota) ==
  LET w0 == [tree |-> t, calls |-> <<>>, gids |-> <<>>, failed |-> FALSE,
             ret |-> -1, open |-> 0, peak |-> 0, quota |-> quota]
      loc == LocOf(par)
      pos == find_first_of(pathToCheck, Slash, 0)
      p == StripTrailing(StripLeading(pathToCheck))
  IN IF par <= 0 THEN w0
     ELSE IF pos # 0 /\ pos = Npos THEN EnsureGroup(w0, loc, pathToCheck)
     ELSE IF p = <<>> THEN w0
     ELSE IF find_first_of(p, Slash, 0) = Npos THEN EnsureGroup(w0, loc, p)
     ELSE WalkPrefixes(w0, loc, p, find_first_of(p, Slash, 0))


-----------------------------------------------------------------------------
(* Opening and creating files: openFile and createFile *)

\* the library-version macros are chosen by H5_VERS_MINOR
Builds == {"1.8", "1.10", "1.12"}

\* H5F_libver_t values named by the code, and the pair a property list
\* created by H5Pcreate(H5P_FILE_ACCESS) starts with
Versions == {"EARLIEST", "V18", "LATEST"}
DefaultLow == "EARLIEST"
DefaultHigh == "LATEST"

HDF5_VERSION_LIB_LOWER_BOUNDS(b) == "V18"
HDF5_VERSION_LIB_UPPER_BOUNDS(b) == IF b = "1.8" THEN "LATEST" ELSE "V18"

FileNames == {"x.h5", "y.h5"}
\* disk[name] of a file that does not exist
Absent == -1
FileIds == 1..MaxOpenFiles

\* H5P_DEFAULT, and the id H5Pcreate hands out: an openFile or createFile call
\* has at most one property list open
H5P_DEFAULT == 0
FaplHid == MaxOpenFiles + 1

\* the record kept of one HDF5 call: low and high are the bounds carried by
\* the access property list the call was given
GwCall(fn, name, flags, fapl, low, high) ==
  [fn |-> fn, name |-> name, flags |-> flags, fapl |-> fapl,
   low |-> low, high |-> high]

\* pl: the property lists open during the call, id -> [low, high]
H5Pcreate(pl) ==
  [id |-> FaplHid,
   plists |-> (FaplHid :> [low |-> DefaultLow, high |-> DefaultHigh]) @@ pl,
   call |-> GwCall("H5Pcreate", "", "", FaplHid, DefaultLow, DefaultHigh)]

H5Pset_libver_bounds(pl, id, low, high) ==
  [plists |-> [pl EXCEPT ![id] = [low |-> low, high |-> high]],
   call |-> GwCall("H5Pset_libver_bounds", "", "", id, low, high)]

H5Pclose(pl, id) ==
  [plists |-> [i \in DOMAIN pl \ {id} |-> pl[i]],
   call |-> GwCall("H5Pclose", "", "", id, pl[id].low, pl[id].high)]

\* the bounds a file is opened under when given access property list fapl
LowOf(pl, fapl) == IF fapl = H5P_DEFAULT THEN DefaultLow ELSE pl[fapl].low
HighOf(pl, fapl) == IF fapl = H5P_DEFAULT THEN DefaultHigh ELSE pl[fapl].high

IsOpenFile(fls, name) == \E id \in DOMAIN fls : fls[id].name = name

NewFile(fls, name, flags, pl, fapl) ==
  LET id == CHOOSE i \in FileIds \ DOMAIN fls :
              \A j \in FileIds \ DOMAIN fls : i <= j
  IN [id |-> id,
      files |-> (id :> [name |-> name, flags |-> flags,
                        low |-> LowOf(pl, fapl), high |-> HighOf(pl, fapl)])
                @@ fls]

\* H5Fopen: fails on a file that does not exist, or when the library says so
H5Fopen(dsk, fls, name, flags, fapl, pl, ans) ==
  LET c == GwCall("H5Fopen", name, flags, fapl, LowOf(pl, fapl), HighOf(pl, fapl))
  IN IF dsk[name] = Absent \/ ans # "ok"
     THEN [id |-> -1, files |-> fls, disk |-> dsk, call |-> c]
     ELSE LET n == NewFile(fls, name, flags, pl, fapl)
          IN [id |-> n.id, files |-> n.files, disk |-> dsk, call |-> c]

\* H5Fcreate: H5F_ACC_TRUNC empties an existing file and H5F_ACC_EXCL fails on
\* one; either fails on a file this process has open, or when the library
\* says so
H5Fcreate(dsk, fls, name, flags, fapl, pl, ans) ==
  LET c == GwCall("H5Fcreate", name, flags, fapl, LowOf(pl, fapl), HighOf(pl, fapl))
  IN IF \/ ans # "ok"
        \/ IsOpenFile(fls, name)
        \/ (flags = "H5F_ACC_EXCL" /\ dsk[name] # Absent)
     THEN [id |-> -1, files |-> fls, disk |-> dsk, call |-> c]
     ELSE LET n == NewFile(fls, name, "H5F_ACC_RDWR", pl, fapl)
          IN [id |-> n.id, files |-> n.files,
              disk |-> [dsk EXCEPT ![name] = 0], call |-> c]

H5Fclose(fls, id) == [i \in DOMAIN fls \ {id} |-> fls[i]]

\* openFile(const std::string& filename, bool readOnly)
openFile(filename, readOnly, b, dsk, fls, ans) ==
  IF readOnly
  THEN LET r == H5Fopen(dsk, fls, filename, "H5F_ACC_RDONLY", H5P_DEFAULT,
                        <<>>, ans)
       IN [fileID |-> r.id, files |-> r.files, disk |-> r.disk,
           gw |-> <<r.call>>, plists |-> <<>>]
  ELSE LET fileAccessPropertyList == H5Pcreate(<<>>)
           s == H5Pset_libver_bounds(fileAccessPropertyList.plists,
                                     fileAccessPropertyList.id,
                                     HDF5_VERSION_LIB_LOWER_BOUNDS(b),
                                     HDF5_VERSION_LIB_UPPER_BOUNDS(b))
           r == H5Fopen(dsk, fls, filename, "H5F_ACC_RDWR", H5P_DEFAULT,
                        s.plists, ans)
           c == H5Pclose(s.plists, fileAccessPropertyList.id)
       IN [fileID |-> r.id, files |-> r.files, disk |-> r.disk,
           gw |-> <<fileAccessPropertyList.call, s.call, r.call, c.call>>,
           plists |-> c.plists]

\* createFile(const std::string& filename)
createFile(filename, b, dsk, fls, ans) ==
  LET fileAccessPropertyList == H5Pcreate(<<>>)
      s == H5Pset_libver_bounds(fileAccessPropertyList.plists,
                                fileAccessPropertyList.id,
                                HDF5_VERSION_LIB_LOWER_BOUNDS(b),
                                HDF5_VERSION_LIB_UPPER_BOUNDS(b))
      r == H5Fcreate(dsk, fls, filename, "H5F_ACC_TRUNC",
                     fileAccessPropertyList.id, s.plists, ans)
      c == H5Pclose(s.plists, fileAccessPropertyList.id)
  IN [fileID |-> r.id, files |-> r.files, disk |-> r.disk,
      gw |-> <<fileAccessPropertyList.call, s.call, r.call, c.call>>,
      plists |-> c.plists]

NoOpen == [op |-> "none", filename |-> "", readOnly |-> FALSE, ret |-> -1,
           existed |-> FALSE, gw |-> <<>>, plists |-> <<>>]

\* the file variables outside SpecFile
NoFiles ==
  /\ build = "1.10"
  /\ disk = <<>>
  /\ files = <<>>
  /\ fcall = NoOpen

-----------------------------------------------------------------------------
(* Handle lifecycle: closeHDF5Object and closeFile *)

\* H5I_type_t of the ids H5Fget_obj_count / H5Fget_obj_ids are asked for
FileObjKinds == {"group", "dataset", "attr", "datatype"}
\* H5I_type_t of the object ids closeHDF5Object dispatches on
Kinds == FileObjKinds \cup {"dataspace"}

HandleIds == (FileHid + 1)..(FileHid + MaxHandles)

\* H5Iget_type(id) # H5I_BADID
IsValid(os, fvalid, id) ==
  \/ id = FileHid /\ fvalid
  \/ id \in DOMAIN os /\ os[id].open

H5Iget_type(os, fvalid, id) ==
  IF ~IsValid(os, fvalid, id) THEN "badid"
  ELSE IF id = FileHid THEN "file"
  ELSE os[id].kind

\* What HDF5 answers for one id during one call: "ok", or H5Iget_name
\* returns negative ("name"), or the close primitive does ("prim").
Answers == {"ok", "name", "prim"}

\* closeHDF5Object(objectID).  Returns the ids' new state, the status, how
\* many close primitives were invoked and which ids they closed.
closeHDF5Object(os, fvalid, objectID, ans) ==
  LET same == [objs |-> os, fileValid |-> fvalid, prims |-> 0, closed |-> {}]
      type == H5Iget_type(os, fvalid, objectID)
      charsRead == IF type = "badid" \/ ans = "name" THEN -1 ELSE 1
      err == IF ans = "prim" THEN -1 ELSE 0
  IN IF objectID < 0 THEN [ret |-> 0] @@ same
     ELSE IF charsRead < 0 THEN [ret |-> -1] @@ same
     ELSE IF type = "file"
          THEN \* H5Fclose
               [ret |-> err, objs |-> os, fileValid |-> (err < 0),
                prims |-> 1, closed |-> IF err < 0 THEN {} ELSE {objectID}]
     ELSE IF type \in Kinds
          THEN \* H5Gclose, H5Dclose, H5Aclose, H5Tclose, H5Sclose
               [ret |-> err,
                objs |-> IF err < 0 THEN os
                         ELSE [os EXCEPT ![objectID].open = FALSE],
                fileValid |-> fvalid,
                prims |-> 1, closed |-> IF err < 0 THEN {} ELSE {objectID}]
     ELSE [ret |-> -1] @@ same

\* H5Fget_obj_count(fileID, H5F_OBJ_DATASET | H5F_OBJ_GROUP |
\*                  H5F_OBJ_DATATYPE | H5F_OBJ_ATTR | H5F_OBJ_LOCAL)
Leaked(os) == {id \in DOMAIN os : os[id].open /\ os[id].kind \in FileObjKinds}

H5Fget_obj_count(os, fvalid, fid) ==
  IF fid = FileHid /\ fvalid THEN Cardinality(Leaked(os)) ELSE -1

\* the orders in which H5Fget_obj_ids may list a set of ids
Orders(S) ==
  {o \in [1..Cardinality(S) -> S] : \A i, j \in DOMAIN o : o[i] = o[j] => i = j}

RECURSIVE SweepLoop(_, _, _, _, _)
\* for(const auto& id : attributeIDs): acc is the sweep so far
SweepLoop(acc, fvalid, ids, i, ans) ==
  IF i > Len(ids) THEN acc
  ELSE IF ans[ids[i]] = "name"
       THEN [acc EXCEPT !.aborted = TRUE]
       ELSE LET r == closeHDF5Object(acc.objs, fvalid, ids[i], ans[ids[i]])
            IN SweepLoop([acc EXCEPT !.objs = r.objs,
                                     !.prims = @ + r.prims,
                                     !.closed = @ \cup r.closed,
                                     !.handled = @ \cup {ids[i]}],
                         fvalid, ids, i + 1, ans)

\* closeFile from "Get the number of open identifiers" on
closeFileOpen(fid, fvalid, os, ids, ans, fans) ==
  LET numOpen == H5Fget_obj_count(os, fvalid, fid)
      acc0 == [objs |-> os, prims |-> 0, closed |-> {}, handled |-> {},
               aborted |-> FALSE]
      sw == IF numOpen > 0 THEN SweepLoop(acc0, fvalid, ids, 1, ans) ELSE acc0
      err == IF fid = FileHid /\ fvalid /\ fans = "ok" THEN 0 ELSE -1
  IN IF sw.aborted
     THEN [fileID |-> fid, fileValid |-> fvalid, objs |-> sw.objs, ret |-> -1,
           prims |-> sw.prims, closed |-> sw.closed, handled |-> sw.handled,
           fclose |-> "none"]
     ELSE [fileID |-> -1,
           fileValid |-> IF err < 0 THEN fvalid ELSE FALSE,
           objs |-> sw.objs, ret |-> err,
           prims |-> sw.prims + 1,
           closed |-> IF err < 0 THEN sw.closed ELSE sw.closed \cup {fid},
           handled |-> sw.handled,
           fclose |-> IF err < 0 THEN "failed" ELSE "ok"]

closeFile_noSentinelTest(fid, fvalid, os, ids, ans, fans) ==
  closeFileOpen(fid, fvalid, os, ids, ans, fans)

\* closeFile(hid_t& fileID)
closeFile(fid, fvalid, os, ids, ans, fans) ==
  IF fid < 0
  THEN [fileID |-> fid, fileValid |-> fvalid, objs |-> os, ret |-> 1,
        prims |-> 0, closed |-> {}, handled |-> {}, fclose |-> "none"]
  ELSE closeFileOpen(fid, fvalid, os, ids, ans, fans)

-----------------------------------------------------------------------------
(* Spec: one file, the ids opened under it, and the two close entry points *)

NoEnsure == [n |-> 0, ret |-> 0, calls |-> <<>>, gids |-> <<>>, open |-> 0,
             peak |-> 0]

NoCall == [op |-> "none", prev |-> "none", arg |-> -1, ret |-> 0,
           wasOpen |-> FALSE, leaked |-> {}, handled |-> {}, closed |-> {},
           prims |-> 0, fclose |-> "none", ans |-> <<>>]

NoListing == [op |-> "none", filter |-> 0, ret |-> 0, before |-> <<>>]

Init ==
  /\ NoFiles
  /\ fileID = FileHid
  /\ fileValid = TRUE
  /\ objs = <<>>
  /\ call = NoCall
  /\ path = <<>>
  /\ parent = FileHid
  /\ tree = (<<>> :> "group")
  /\ cg = NoEnsure
  /\ pf = [op |-> "none", thrown |-> FALSE, value |-> <<>>]
  /\ names = <<>>
  /\ lst = NoListing
  /\ lock = [owner |-> 0, depth |-> 0]
  /\ thr = <<>>
  /\ hOpen = <<>>
  /\ mixed = <<>>

\* openFile / createFile: the caller's variable receives the new file id
OpenFile ==
  /\ fileID < 0
  /\ ~fileValid
  /\ \A id \in DOMAIN objs : ~objs[id].open
  /\ fileID' = FileHid
  /\ fileValid' = TRUE
  /\ objs' = <<>>
  /\ call' = [NoCall EXCEPT !.op = "openFile",
                            !.arg = -1, !.ret = FileHid]
  /\ UNCHANGED <<pathVars, listVars, concVars, fileVars>>

\* the caller obtains an object id under the open file and keeps it:
\* a group or dataset from openHDF5Object / createGroup, an attribute, named
\* datatype or dataspace from the library itself
OpenObject ==
  /\ fileValid
  /\ DOMAIN objs # HandleIds
  /\ \E kind \in Kinds :
       LET id == SetMin(HandleIds \ DOMAIN objs)
       IN /\ objs' = (id :> [kind |-> kind, open |-> TRUE]) @@ objs
          /\ call' = [NoCall EXCEPT !.op = "open",
                                    !.arg = FileHid, !.ret = id]
  /\ UNCHANGED <<fileID, fileValid>>
  /\ UNCHANGED <<pathVars, listVars, concVars, fileVars>>

\* closeHDF5Object(objectID) with any hid_t the caller may hold: a negative
\* one, the file id, an object id (open, or closed before: the call takes the
\* id by value and cannot reset the caller's copy)
CloseHDF5Object ==
  /\ \E objectID \in {-1, FileHid} \cup DOMAIN objs, ans \in Answers :
       LET r == closeHDF5Object(objs, fileValid, objectID, ans)
       IN /\ objs' = r.objs
          /\ fileValid' = r.fileValid
          /\ call' = [NoCall EXCEPT !.op = "closeHDF5Object",
                                    !.arg = objectID, !.ret = r.ret,
                                    !.wasOpen = IsValid(objs, fileValid, objectID),
                                    !.closed = r.closed, !.prims = r.prims]
  /\ UNCHANGED fileID
  /\ UNCHANGED <<pathVars, listVars, concVars, fileVars>>

\* closeFile(fileID) on the caller's variable
CloseFile ==
  /\ \E ids \in Orders(Leaked(objs)),
        ans \in [Leaked(objs) -> Answers],
        fans \in {"ok", "prim"} :
       LET r == closeFile(fileID, fileValid, objs, ids, ans, fans)
       IN /\ fileID' = r.fileID
          /\ fileValid' = r.fileValid
          /\ objs' = r.objs
          /\ call' = [op |-> "closeFile",
                      prev |-> IF call.op = "closeFile" THEN "closeFile" ELSE "none",
                      arg |-> fileID,
                      ret |-> r.ret,
                      wasOpen |-> (fileID = FileHid /\ fileValid),
                      leaked |-> Leaked(objs), handled |-> r.handled,
                      closed |-> r.closed, prims |-> r.prims,
                      fclose |-> r.fclose,
                      ans |-> IF fileID = FileHid /\ fileValid THEN ans ELSE <<>>]
  /\ UNCHANGED <<pathVars, listVars, concVars, fileVars>>

Next ==
  \/ OpenFile
  \/ OpenObject
  \/ CloseHDF5Object
  \/ CloseFile

Spec == Init /\ [][Next]_vars


-----------------------------------------------------------------------------
(* Namespace enumerator: getGroupObjects *)

\* enum class CustomHDFDataTypes
Group == 1
Dataset == 2
Type == 4
Link == 8
\* CustomHDFDataTypes::Any (the TLC module already defines Any)
AnyFilter == 15

\* (filter & bit) != 0 for a one-bit value
BitAnd(filter, bit) == IF (filter \div bit) % 2 = 1 THEN bit ELSE 0

CharCode(c) == CASE c = "/" -> 47 [] c = "a" -> 97 [] c = "b" -> 98

RECURSIVE StrLess(_, _)
\* strcmp(s, t) < 0: the order of H5_INDEX_NAME
StrLess(s, t) ==
  IF t = <<>> THEN FALSE
  ELSE IF s = <<>> THEN TRUE
  ELSE IF s[1] # t[1] THEN CharCode(s[1]) < CharCode(t[1])
  ELSE StrLess(Tail(s), Tail(t))

\* the link names of the group at node loc
LinkNames(t, loc) ==
  {n[Len(n)] : n \in {m \in DOMAIN t : Len(m) = Len(loc) + 1 /\ Front(m) = loc}}

\* H5Gget_info(locationID, &groupInfo): status and groupInfo.nlinks
H5Gget_info(t, locationID) ==
  IF locationID \in {FileHid, GroupHid} /\ LocOf(locationID) \in DOMAIN t
  THEN [err |-> 0, nlinks |-> Cardinality(LinkNames(t, LocOf(locationID)))]
  ELSE [err |-> -1, nlinks |-> 0]

\* H5Lget_name_by_idx(locationID, ".", H5_INDEX_NAME, H5_ITER_INC, i, ...)
H5Lget_name_by_idx(t, loc, i) ==
  LET S == LinkNames(t, loc)
  IN CHOOSE n \in S : Cardinality({m \in S : StrLess(m, n)}) = i

\* the test of lines 621-622
TypeMatches(type, typeFilter) ==
  \/ type = "group" /\ BitAnd(typeFilter, Group) # 0
  \/ type = "dataset" /\ BitAnd(typeFilter, Dataset) # 0

RECURSIVE ListLoop(_, _, _, _, _, _)
\* for(hsize_t i = 0; i < numObjects; i++): acc is names and error so far
ListLoop(t, loc, typeFilter, i, numObjects, acc) ==
  IF ~(i < numObjects) THEN acc
  ELSE LET name == H5Lget_name_by_idx(t, loc, i)
           info == H5Oget_info_by_name(t, loc, name)
           acc1 ==
             IF typeFilter = AnyFilter
             THEN [acc EXCEPT !.names = Append(@, name)]
             ELSE IF info.err >= 0 /\ TypeMatches(info.type, typeFilter)
                  THEN [names |-> Append(acc.names, name), error |-> info.err]
                  ELSE [names |-> acc.names, error |-> info.err]
       IN ListLoop(t, loc, typeFilter, i + 1, numObjects, acc1)

getGroupObjects(t, locationID, typeFilter, names0) ==
  LET groupInfo == H5Gget_info(t, locationID)
  IN IF groupInfo.err < 0 THEN [names |-> names0, error |-> groupInfo.err]
     ELSE IF groupInfo.nlinks <= 0 THEN [names |-> names0, error |-> 0]
     ELSE ListLoop(t, LocOf(locationID), typeFilter, 0, groupInfo.nlinks,
                   [names |-> names0, error |-> groupInfo.err])

-----------------------------------------------------------------------------
(* SpecList: one group with some links, listed once with some filter *)

\* link names: one or two letters
ChildNames == {s \in Strings(2) : s # <<>> /\ \A i \in DOMAIN s : s[i] # Slash}

ChildSets == {S \in SUBSET ChildNames : Cardinality(S) <= MaxChildren}

\* the root group with at most MaxChildren links of any type
ListTrees ==
  {t \in UNION {[{<<>>} \cup {<<c>> : c \in S} -> NodeTypes] : S \in ChildSets} :
     t[<<>>] = "group"}

InitList ==
  /\ NoFiles
  /\ tree \in ListTrees
  /\ parent \in {FileHid, -1}
  /\ names \in {<<>>, << <<"b">> >>}
  /\ lst = NoListing
  /\ path = <<>>
  /\ cg = NoEnsure
  /\ pf = [op |-> "none", thrown |-> FALSE, value |-> <<>>]
  /\ fileID = FileHid
  /\ fileValid = TRUE
  /\ objs = <<>>
  /\ call = NoCall
  /\ lock = [owner |-> 0, depth |-> 0]
  /\ thr = <<>>
  /\ hOpen = <<>>
  /\ mixed = <<>>

\* getGroupObjects(locationID, typeFilter, names); `parent' is locationID
GetGroupObjects ==
  /\ lst.op = "none"
  /\ \E typeFilter \in 1..AnyFilter :
       LET r == getGroupObjects(tree, parent, typeFilter, names)
       IN /\ names' = r.names
          /\ lst' = [op |-> "getGroupObjects", filter |-> typeFilter,
                     ret |-> r.error, before |-> names]
  /\ UNCHANGED <<pathVars, lifeVars, concVars, fileVars>>

NextList == GetGroupObjects

SpecList == InitList /\ [][NextList]_vars


-----------------------------------------------------------------------------
(* Threads: the entry points as sequences of lock, unlock and HDF5 calls *)

Threads == {1, 2}

\* One step of an entry point.  uses: the id the HDF5 call is given (0 the
\* file id, u > 0 the object id opened by thread u, -1 none).  eff: "open"
\* and "close" open and close that object id, "fclose" closes the file id,
\* "count" is H5Fget_obj_count.  mark: set when the call fails.  cond: the
\* step is skipped when one of these marks is set (an early return, a branch
\* not taken, a loop of zero iterations).
StepOf(k, name, uses, eff, mark, cond) ==
  [k |-> k, name |-> name, uses |-> uses, eff |-> eff, mark |-> mark, cond |-> cond]

NoMark == <<"none", 0>>
\* H5SUPPORT_MUTEX_LOCK() and the end of the scope that holds it
LockStep(cond) == StepOf("lock", "H5SUPPORT_MUTEX_LOCK", -1, "none", NoMark, cond)
UnlockStep(cond) == StepOf("unlock", "end of scope", -1, "none", NoMark, cond)
Gw(name, uses, eff, mark, cond) == StepOf("gw", name, uses, eff, mark, cond)

\* createGroup(parent, "g")
createGroupSteps(t) ==
  << LockStep({}),
     Gw("H5Oget_info_by_name", 0, "none", NoMark, {}),
     Gw("H5Gopen or H5Gcreate", t, "open", <<"gid", t>>, {}),
     UnlockStep({}) >>

\* createGroupsFromPath("g", fileId): the one-element branch
createGroupsFromPathSteps(t, fid) ==
  IF fid <= 0 THEN << LockStep({}), UnlockStep({}) >>
  ELSE << LockStep({}) >> \o createGroupSteps(t) \o
       << Gw("H5Gclose", t, "close", NoMark, {<<"gid", t>>}),
          UnlockStep({}) >>

\* getGroupObjects(fileId, Group, names) on a group with one link
getGroupObjectsSteps(t) ==
  << LockStep({}),
     Gw("H5Gget_info", 0, "none", <<"info", t>>, {}),
     Gw("H5Lget_name_by_idx", 0, "none", NoMark, {<<"info", t>>}),
     Gw("H5Lget_name_by_idx", 0, "none", NoMark, {<<"info", t>>}),
     Gw("H5Oget_info_by_name", 0, "none", NoMark, {<<"info", t>>}),
     UnlockStep({}) >>

\* getAllAttributeNames(objectID, results) on an object with one attribute;
\* c: the marks under which the call is not made at all
attributeNamesSteps(t, id, c) ==
  LET noAttrs == c \cup {<<"oinfo", t>>}
  IN << LockStep(c),
        Gw("H5Oget_info", id, "none", <<"oinfo", t>>, c),
        Gw("H5Aopen_by_idx", id, "none", NoMark, noAttrs),
        Gw("H5Aget_name", id, "none", NoMark, noAttrs),
        Gw("H5Aget_name", id, "none", NoMark, noAttrs),
        Gw("H5Aclose", id, "none", NoMark, noAttrs),
        UnlockStep(c) >>

getAllAttributeNamesSteps(t, fid) ==
  IF fid < 0 THEN << LockStep({}), UnlockStep({}) >>
  ELSE attributeNamesSteps(t, 0, {})

\* openHDF5Object(locationID, "g"), getObjectType inside it
openHDF5ObjectSteps(t) ==
  << LockStep({}),
     LockStep({}),
     Gw("H5Oget_info_by_name", 0, "none", <<"type", t>>, {}),
     UnlockStep({}),
     Gw("H5Gopen", t, "open", <<"obj", t>>, {<<"type", t>>}),
     UnlockStep({}) >>

\* closeHDF5Object(id) of the object id of thread u
closeHDF5ObjectSteps(t, u, c) ==
  << LockStep(c),
     Gw("H5Iget_type", u, "none", NoMark, c),
     Gw("H5Iget_name", u, "none", <<"cname", u>>, c),
     Gw("H5Gclose", u, "close", NoMark, c \cup {<<"cname", u>>}),
     UnlockStep(c) >>

\* getAllAttributeNames(locationID, "g", names): it takes no lock itself
getAllAttributeNames3Steps(t) ==
  LET c == {<<"type", t>>, <<"obj", t>>}
  IN openHDF5ObjectSteps(t) \o attributeNamesSteps(t, t, c) \o
     closeHDF5ObjectSteps(t, t, c)

\* closeFile(fileID) up to H5Fget_obj_count and from H5Fclose on; the sweep
\* is put in between when the count is known
closeFileSteps(t) ==
  << StepOf("lock", "H5SUPPORT_MUTEX_LOCK", -1, "sentinel", NoMark, {}),
     Gw("H5Fget_obj_count", 0, "count", NoMark, {}),
     Gw("H5Fclose", 0, "fclose", NoMark, {<<"abort", t>>}),
     UnlockStep({}) >>

RECURSIVE sweepSteps(_, _, _)
\* if(numOpen > 0): H5Fget_obj_ids, then per id H5Iget_name and closeHDF5Object
sweepSteps(t, ids, i) ==
  LET c == {<<"abort", t>>}
  IN IF i > Len(ids) THEN <<>>
     ELSE << Gw("H5Iget_name", ids[i], "none", <<"abort", t>>, c) >> \o
          closeHDF5ObjectSteps(t, ids[i], c) \o sweepSteps(t, ids, i + 1)

Ops == {"createGroupsFromPath", "getGroupObjects", "getAllAttributeNames",
        "getAllAttributeNames3", "closeFile"}

Program(op, t, fid) ==
  CASE op = "createGroupsFromPath" -> createGroupsFromPathSteps(t, fid)
    [] op = "getGroupObjects" -> getGroupObjectsSteps(t)
    [] op = "getAllAttributeNames" -> getAllAttributeNamesSteps(t, fid)
    [] op = "getAllAttributeNames3" -> getAllAttributeNames3Steps(t)
    [] op = "closeFile" -> closeFileSteps(t)

RECURSIVE Skip(_, _)
\* drop the steps that the marks set so far rule out
Skip(prog, failed) ==
  IF prog # <<>> /\ Head(prog).cond \cap failed # {}
  THEN Skip(Tail(prog), failed)
  ELSE prog

Idle == [op |-> "idle", prog |-> <<>>, failed |-> {}, started |-> FALSE,
         intruded |-> "no"]

\* what is left of thread t's call after a step
Rest(t, prog, failed) ==
  IF Skip(prog, failed) = <<>> THEN Idle
  ELSE [thr[t] EXCEPT !.prog = Skip(prog, failed), !.failed = failed]

\* the mutex: held by one thread at a time, the holder may take it again
CanLock(t) == lock.owner \in {0, t}
Acquire(t) == [owner |-> t, depth |-> lock.depth + 1]
Release(t) == IF lock.depth = 1 THEN [owner |-> 0, depth |-> 0]
              ELSE [lock EXCEPT !.depth = @ - 1]

NotMixed == [victim |-> "none", by |-> "none", at |-> "none"]

InitConc ==
  /\ NoFiles
  /\ lock = [owner |-> 0, depth |-> 0]
  /\ thr = [t \in Threads |-> Idle]
  /\ hOpen = [t \in Threads |-> FALSE]
  /\ mixed = NotMixed
  /\ fileID = FileHid
  /\ fileValid = TRUE
  /\ objs = <<>>
  /\ call = NoCall
  /\ names = <<>>
  /\ lst = NoListing
  /\ path = <<>>
  /\ parent = FileHid
  /\ tree = (<<>> :> "group")
  /\ cg = NoEnsure
  /\ pf = [op |-> "none", thrown |-> FALSE, value |-> <<>>]

\* thread t calls an entry point with the file id its caller holds
Begin(t) ==
  /\ thr[t].op = "idle"
  /\ \E op \in Ops :
       thr' = [thr EXCEPT ![t] = [Idle EXCEPT !.op = op,
                                              !.prog = Program(op, t, fileID)]]
  /\ UNCHANGED <<lock, hOpen, mixed, fileID, fileValid>>

\* H5SUPPORT_MUTEX_LOCK(); closeFile then tests if(fileID < 0) return 1
Lock(t) ==
  /\ thr[t].prog # <<>>
  /\ Head(thr[t].prog).k = "lock"
  /\ CanLock(t)
  /\ lock' = Acquire(t)
  /\ thr' = [thr EXCEPT ![t] =
       IF Head(thr[t].prog).eff = "sentinel" /\ fileID < 0
       THEN [thr[t] EXCEPT !.prog = << UnlockStep({}) >>]
       ELSE Rest(t, Tail(thr[t].prog), thr[t].failed)]
  /\ UNCHANGED <<hOpen, mixed, fileID, fileValid>>

\* the scope that took the lock ends
Unlock(t) ==
  /\ thr[t].prog # <<>>
  /\ Head(thr[t].prog).k = "unlock"
  /\ lock' = Release(t)
  /\ thr' = [thr EXCEPT ![t] = Rest(t, Tail(thr[t].prog), thr[t].failed)]
  /\ UNCHANGED <<hOpen, mixed, fileID, fileValid>>

\* thread t makes the next HDF5 call of its entry point
Gateway(t) ==
  /\ thr[t].prog # <<>>
  /\ Head(thr[t].prog).k = "gw"
  /\ LET s == Head(thr[t].prog)
         ok == IF s.uses = 0 THEN fileValid
               ELSE IF s.eff = "open" THEN fileValid
               ELSE hOpen[s.uses]
         failed == IF ok \/ s.mark = NoMark THEN thr[t].failed
                   ELSE thr[t].failed \cup {s.mark}
         leaked == {u \in Threads : hOpen[u]}
     IN /\ hOpen' = IF ok /\ s.eff = "open" THEN [hOpen EXCEPT ![s.uses] = TRUE]
                    ELSE IF ok /\ s.eff = "close" THEN [hOpen EXCEPT ![s.uses] = FALSE]
                    ELSE hOpen
        /\ fileValid' = IF ok /\ s.eff = "fclose" THEN FALSE ELSE fileValid
        /\ fileID' = IF s.eff = "fclose" THEN -1 ELSE fileID
        /\ mixed' = IF thr[t].intruded # "no" /\ mixed = NotMixed
                    THEN [victim |-> thr[t].op, by |-> thr[t].intruded, at |-> s.name]
                    ELSE mixed
        /\ \E ids \in Orders(leaked) :
             LET rest == IF s.eff = "count" /\ ok /\ leaked # {}
                         THEN << Gw("H5Fget_obj_ids", 0, "none", NoMark, {}) >> \o
                              sweepSteps(t, ids, 1) \o Tail(thr[t].prog)
                         ELSE Tail(thr[t].prog)
                 mine == Rest(t, rest, failed)
             IN thr' = [u \in Threads |->
                          IF u = t
                          THEN IF mine.op = "idle" THEN mine
                               ELSE [mine EXCEPT !.started = TRUE, !.intruded = "no"]
                          ELSE IF thr[u].started
                               THEN [thr[u] EXCEPT !.intruded = thr[t].op]
                               ELSE thr[u]]
  /\ UNCHANGED lock

OtherVars == <<pathVars, objs, call, listVars, fileVars>>

BeginCall == \E t \in Threads : Begin(t) /\ UNCHANGED OtherVars
TakeLock == \E t \in Threads : Lock(t) /\ UNCHANGED OtherVars
LeaveScope == \E t \in Threads : Unlock(t) /\ UNCHANGED OtherVars
GatewayCall == \E t \in Threads : Gateway(t) /\ UNCHANGED OtherVars

NextConc ==
  \/ BeginCall
  \/ TakeLock
  \/ LeaveScope
  \/ GatewayCall

SpecConc == InitConc /\ [][NextConc]_vars

-----------------------------------------------------------------------------
(* SpecPath: one std::string argument, the path helpers and              *)
(* createGroupsFromPath applied to it                                    *)

A == <<"a">>
B == <<"b">>

\* namespaces the file may hold before the call: the root group, and
\* possibly /a and /a/b, each a group or a dataset
InitTrees ==
  {(<<>> :> "group")} \cup
  {(<<>> :> "group") @@ (<<A>> :> ta) : ta \in {"group", "dataset"}} \cup
  {(<<>> :> "group") @@ (<<A>> :> "group") @@ (<<A, B>> :> tb) :
      tb \in {"group", "dataset"}}

Parents == {-1, 0, FileHid, GroupHid}

InitPath ==
  /\ NoFiles
  /\ path \in Strings(MaxPathLen)
  /\ tree \in InitTrees
  /\ parent \in Parents
  /\ parent = GroupHid => (<<A>> \in DOMAIN tree /\ tree[<<A>>] = "group")
  /\ cg = NoEnsure
  /\ pf = [op |-> "none", thrown |-> FALSE, value |-> <<>>]
  /\ fileID = FileHid
  /\ fileValid = TRUE
  /\ objs = <<>>
  /\ call = NoCall
  /\ names = <<>>
  /\ lst = NoListing
  /\ lock = [owner |-> 0, depth |-> 0]
  /\ thr = <<>>
  /\ hOpen = <<>>
  /\ mixed = <<>>

\* the library fails H5Gcreate from some call on, or not at all (a path has
\* at most (Len(path) + 1) \div 2 segments).  The path helpers are pure and
\* read nothing but the argument: they and createGroupsFromPath are applied
\* to an argument not used before.
CreateGroupsFromPath ==
  /\ cg.n < MaxEnsure
  /\ pf.op = "none"
  /\ \E quota \in 0..((Len(path) + 1) \div 2) :
       LET w == createGroupsFromPath(path, parent, tree, quota)
       IN /\ tree' = w.tree
          /\ cg' = [n |-> cg.n + 1, ret |-> w.ret, calls |-> w.calls,
                    gids |-> w.gids, open |-> w.open, peak |-> w.peak]
  /\ UNCHANGED <<path, parent, pf>>
  /\ UNCHANGED <<lifeVars, listVars, concVars, fileVars>>

GetParentPath ==
  /\ cg.n = 0
  /\ pf' = [op |-> "getParentPath"] @@ getParentPath(path)
  /\ UNCHANGED <<path, parent, tree, cg>>
  /\ UNCHANGED <<lifeVars, listVars, concVars, fileVars>>

GetObjectNameFromPath ==
  /\ cg.n = 0
  /\ pf' = [op |-> "getObjectNameFromPath"] @@ getObjectNameFromPath(path)
  /\ UNCHANGED <<path, parent, tree, cg>>
  /\ UNCHANGED <<lifeVars, listVars, concVars, fileVars>>

ExtractObjectName ==
  /\ cg.n = 0
  /\ pf' = [op |-> "extractObjectName"] @@ extractObjectName(path)
  /\ UNCHANGED <<path, parent, tree, cg>>
  /\ UNCHANGED <<lifeVars, listVars, concVars, fileVars>>

NextPath ==
  \/ CreateGroupsFromPath
  \/ GetParentPath
  \/ GetObjectNameFromPath
  \/ ExtractObjectName

SpecPath == InitPath /\ [][NextPath]_vars

-----------------------------------------------------------------------------
(* SpecFile: files on disk, opened, created, written to and closed *)

InitFile ==
  /\ build \in Builds
  /\ disk \in [FileNames -> {Absent} \cup 0..MaxObjects]
  /\ files = <<>>
  /\ fcall = NoOpen
  /\ path = <<>>
  /\ parent = FileHid
  /\ tree = (<<>> :> "group")
  /\ cg = NoEnsure
  /\ pf = [op |-> "none", thrown |-> FALSE, value |-> <<>>]
  /\ fileID = -1
  /\ fileValid = FALSE
  /\ objs = <<>>
  /\ call = NoCall
  /\ names = <<>>
  /\ lst = NoListing
  /\ lock = [owner |-> 0, depth |-> 0]
  /\ thr = <<>>
  /\ hOpen = <<>>
  /\ mixed = <<>>

CallOpenFile ==
  /\ DOMAIN files # FileIds
  /\ \E filename \in FileNames, readOnly \in BOOLEAN, ans \in {"ok", "fail"} :
       LET r == openFile(filename, readOnly, build, disk, files, ans)
       IN /\ files' = r.files
          /\ disk' = r.disk
          /\ fcall' = [op |-> "openFile", filename |-> filename,
                       readOnly |-> readOnly, ret |-> r.fileID,
                       existed |-> disk[filename] # Absent,
                       gw |-> r.gw, plists |-> r.plists]
  /\ UNCHANGED build
  /\ UNCHANGED <<pathVars, lifeVars, listVars, concVars>>

CallCreateFile ==
  /\ DOMAIN files # FileIds
  /\ \E filename \in FileNames, ans \in {"ok", "fail"} :
       LET r == createFile(filename, build, disk, files, ans)
       IN /\ files' = r.files
          /\ disk' = r.disk
          /\ fcall' = [op |-> "createFile", filename |-> filename,
                       readOnly |-> FALSE, ret |-> r.fileID,
                       existed |-> disk[filename] # Absent,
                       gw |-> r.gw, plists |-> r.plists]
  /\ UNCHANGED build
  /\ UNCHANGED <<pathVars, lifeVars, listVars, concVars>>

\* the caller stores an object through a read-write file id (createGroup's
\* H5Gcreate)
WriteObject ==
  /\ \E id \in DOMAIN files :
       /\ files[id].flags = "H5F_ACC_RDWR"
       /\ disk[files[id].name] < MaxObjects
       /\ disk' = [disk EXCEPT ![files[id].name] = @ + 1]
  /\ fcall' = [NoOpen EXCEPT !.op = "write"]
  /\ UNCHANGED <<build, files>>
  /\ UNCHANGED <<pathVars, lifeVars, listVars, concVars>>

\* closeFile on a file id with no object id left open under it
CloseOpened ==
  /\ \E id \in DOMAIN files : files' = H5Fclose(files, id)
  /\ fcall' = [NoOpen EXCEPT !.op = "closeFile"]
  /\ UNCHANGED <<build, disk>>
  /\ UNCHANGED <<pathVars, lifeVars, listVars, concVars>>

NextFile ==
  \/ CallOpenFile
  \/ CallCreateFile
  \/ WriteObject
  \/ CloseOpened

SpecFile == InitFile /\ [][NextFile]_vars

-----------------------------------------------------------------------------
(* What the path claims say, stated without the code's index arithmetic *)

RECURSIVE SplitAll(_)
\* split on '/', keeping empty pieces
SplitAll(s) ==
  IF \A i \in 1..Len(s) : s[i] # Slash
  THEN <<s>>
  ELSE LET i == SetMin({j \in 1..Len(s) : s[j] = Slash})
       IN <<SubSeq(s, 1, i - 1)>> \o SplitAll(SubSeq(s, i + 1, Len(s)))

\* one leading and one trailing slash removed
Stripped(s) ==
  LET t == IF s # <<>> /\ s[1] = Slash THEN Tail(s) ELSE s
  IN IF t # <<>> /\ t[Len(t)] = Slash THEN Front(t) ELSE t

Segments(s) == SplitAll(Stripped(s))

\* 1..N non-empty segments, with or without a leading or trailing slash
WellFormed(s) == \A i \in 1..Len(Segments(s)) : Segments(s)[i] # <<>>

RECURSIVE Join(_, _)
\* the first k segments joined by '/'
Join(segs, k) ==
  IF k = 0 THEN <<>>
  ELSE IF k = 1 THEN segs[1]
  ELSE Join(segs, k - 1) \o <<Slash>> \o segs[k]

\* s1, s1/s2, ..., s1/../sn
PrefixNames(s) == [k \in 1..Len(Segments(s)) |-> Join(Segments(s), k)]

IsPrefix(s, t) == Len(s) <= Len(t) /\ s = SubSeq(t, 1, Len(s))

HasSlash(s) == \E i \in 1..Len(s) : s[i] = Slash
LastSlash(s) == SetMax({i \in 1..Len(s) : s[i] = Slash})

\* a createGroupsFromPath call with a usable parent returns in this step
EnsureReturns == cg'.n = cg.n + 1 /\ parent > 0

\* C2: for a path of 1..N non-empty segments (leading / trailing slash or
\* not), when createGroupsFromPath succeeds every prefix of the path is a
\* Group under the parent; and a second identical call after a successful
\* one succeeds too and leaves the namespace exactly as it was.
Thm_C2 ==
  [][ (EnsureReturns /\ WellFormed(path)) =>
        /\ cg'.ret >= 0 =>
             \A k \in 1..Len(Segments(path)) :
               LET n == LocOf(parent) \o SubSeq(Segments(path), 1, k)
               IN n \in DOMAIN tree' /\ tree'[n] = "group"
        /\ (cg.n >= 1 /\ cg.ret >= 0) => (cg'.ret >= 0 /\ tree' = tree)
    ]_vars

\* "/b/a/" ensured twice under the file: /b and /b/a did not exist before
Wit_C2 ==
  /\ path = <<"/", "b", "/", "a", "/">>
  /\ parent = FileHid
  /\ cg.n = 2
  /\ cg.ret >= 0
  /\ tree[<<B, A>>] = "group"

\* C3: after one leading and one trailing slash are stripped, the
\* createGroup calls are the prefixes s1, s1/s2, ..., s1/../sn in that
\* order, each once and nothing else (the calls stop at a prefix whose
\* createGroup fails); an input that is empty or a lone slash after
\* stripping returns an error and creates nothing.
Thm_C3 ==
  [][ EnsureReturns =>
        /\ WellFormed(path) =>
             /\ IsPrefix(cg'.calls, PrefixNames(path))
             /\ Len(cg'.calls) >= 1
             /\ cg'.ret >= 0 => cg'.calls = PrefixNames(path)
        /\ Stripped(path) \in {<<>>, <<Slash>>} =>
             (cg'.ret < 0 /\ tree' = tree)
    ]_vars

\* "/a/b/" under the file made the calls "a" then "a/b"
Wit_C3 ==
  /\ path = <<"/", "a", "/", "b", "/">>
  /\ parent = FileHid
  /\ cg.n = 1
  /\ cg.ret >= 0
  /\ cg.calls = << <<"a">>, <<"a", "/", "b">> >>

\* C9: getParentPath returns the part of the path before its last '/', and
\* the empty string, as a normal return value, for a path with no '/'.
Cex_C9 ==
  (pf.op = "getParentPath" /\ path # <<>>) =>
    /\ ~pf.thrown
    /\ pf.value = IF HasSlash(path) THEN SubSeq(path, 1, LastSlash(path) - 1)
                  ELSE <<>>

\* C10: getObjectNameFromPath and extractObjectName return the substring
\* after the last '/' (the whole path when it has none), except that "/" is
\* returned unchanged.
Cex_C10 ==
  pf.op \in {"getObjectNameFromPath", "extractObjectName"} =>
    /\ ~pf.thrown
    /\ pf.value = IF path = <<Slash>> THEN <<Slash>>
                  ELSE IF HasSlash(path)
                       THEN SubSeq(path, LastSlash(path) + 1, Len(path))
                       ELSE path

\* the createGroup calls that failed in the last createGroupsFromPath call
FailedAt(c) == {k \in DOMAIN c.gids : c.gids[k] < 0}

\* C12: when a createGroup call fails inside createGroupsFromPath, it is the
\* last createGroup call made (for a well-formed path the calls are the
\* prefixes up to the failing one and none after it), the call returns that
\* createGroup's negative result, the groups of the earlier prefixes exist
\* after the call, and no node the file had before the call is gone or
\* changed.
Thm_C12 ==
  [][ (EnsureReturns /\ FailedAt(cg') # {}) =>
        LET k == SetMin(FailedAt(cg'))
        IN /\ k = Len(cg'.calls)
           /\ WellFormed(path) => cg'.calls = SubSeq(PrefixNames(path), 1, k)
           /\ cg'.ret = cg'.gids[k]
           /\ cg'.ret < 0
           /\ \A j \in 1..(k - 1) :
                LET n == Target(LocOf(parent), cg'.calls[j])
                IN n \in DOMAIN tree' /\ tree'[n] = "group"
           /\ \A n \in DOMAIN tree : n \in DOMAIN tree' /\ tree'[n] = tree[n]
    ]_vars

\* "b/a/b" under the file: /b and /b/a were created, then the library failed
\* the creation of /b/a/b; /b and /b/a are still there
Wit_C12 ==
  /\ path = <<"b", "/", "a", "/", "b">>
  /\ parent = FileHid
  /\ cg.n = 1
  /\ cg.ret < 0
  /\ Len(cg.calls) = Len(PrefixNames(path))
  /\ <<B, A>> \in DOMAIN tree
  /\ <<B, A, B>> \notin DOMAIN tree

-----------------------------------------------------------------------------
(* The lifecycle claims *)

\* the last call was closeFile on an open file with un-closed descendants
SweptLeaks == call.op = "closeFile" /\ call.wasOpen /\ call.leaked # {}

\* C1: closeFile on an open file that still has un-closed descendant handles
\* returns a non-negative status, closes the file and leaves none of its
\* handles open.  Read with "whenever physically possible": the calls in
\* which a close primitive itself (H5Fclose, H5Gclose, ...) fails are left
\* out; a failing name lookup for the diagnostic is not.
Cex_C1 ==
  ( /\ SweptLeaks
    /\ call.fclose # "failed"
    /\ \A id \in call.leaked : call.ans[id] # "prim" ) =>
      /\ call.ret >= 0
      /\ ~fileValid
      /\ Leaked(objs) = {}

Cex_C5 == (call.op = "closeFile" /\ call.arg >= 0) => fileID = -1

\* C6: in the leak sweep a failure while handling one leaked id (resolving
\* its name, or closing it) is not propagated: every leaked id is still
\* handed to closeHDF5Object, H5Fclose is still invoked, and closeFile's
\* status is H5Fclose's.
Cex_C6 ==
  SweptLeaks =>
    /\ call.handled = call.leaked
    /\ call.fclose # "none"
    /\ call.ret = IF call.fclose = "ok" THEN 0 ELSE -1

-----------------------------------------------------------------------------
(* The listing claim *)

RECURSIVE Keep(_, _, _)
\* the link names of index positions i.. that are in Wanted, in index order
Keep(t, i, Wanted) ==
  IF i >= Cardinality(LinkNames(t, <<>>)) THEN <<>>
  ELSE LET n == H5Lget_name_by_idx(t, <<>>, i)
       IN (IF n \in Wanted THEN <<n>> ELSE <<>>) \o Keep(t, i + 1, Wanted)

\* the filter bit of a node type; a dangling link has no node type
TypeBit(type) ==
  CASE type = "group" -> Group
    [] type = "dataset" -> Dataset
    [] type = "datatype" -> Type
    [] OTHER -> 0

\* C8: with filter Any getGroupObjects returns exactly the group's links,
\* each once, in index order; with any other filter a link's name is
\* returned iff the bit of its node type (group, dataset, named datatype) is
\* set in the filter.  "Returned" is what the call appends to names.
Cex_C8 ==
  (lst.op = "getGroupObjects" /\ parent = FileHid) =>
    LET All == LinkNames(tree, <<>>)
        Bit == {n \in All : /\ TypeBit(tree[<<n>>]) # 0
                             /\ BitAnd(lst.filter, TypeBit(tree[<<n>>])) # 0}
    IN names = lst.before \o
         (IF lst.filter = AnyFilter THEN Keep(tree, 0, All) ELSE Keep(tree, 0, Bit))

\* the namespace without the link n of the root group
Without(t, n) == [m \in DOMAIN t \ {<<n>>} |-> t[m]]

\* the links of the listed group whose H5Oget_info_by_name fails
LookupFails == {n \in LinkNames(tree, <<>>) :
                  H5Oget_info_by_name(tree, <<>>, n).err < 0}

\* C13: with a filter other than Any, a link whose type lookup fails is
\* skipped: the names appended and the status returned are those of the same
\* call on the group without that link, wherever the link stands in the
\* index order.
Cex_C13 ==
  (lst.op = "getGroupObjects" /\ parent = FileHid /\ lst.filter # AnyFilter) =>
    \A n \in LookupFails :
      LET r == getGroupObjects(Without(tree, n), parent, lst.filter, lst.before)
      IN names = r.names /\ lst.ret = r.error

-----------------------------------------------------------------------------
(* The concurrency claim *)

\* C7: every entry point holds the lock from its first to its last HDF5
\* call, so no HDF5 call of another thread falls between two HDF5 calls of
\* one entry-point call.
Cex_C7 == mixed = NotMixed

-----------------------------------------------------------------------------
(* The file-opening claim *)

\* the HDF5 call of the last openFile / createFile that opened or created
\* the file was made under the declared window of this build
UsesDeclared(fn) ==
  \E i \in DOMAIN fcall.gw :
    /\ fcall.gw[i].fn = fn
    /\ fcall.gw[i].low = HDF5_VERSION_LIB_LOWER_BOUNDS(build)
    /\ fcall.gw[i].high = HDF5_VERSION_LIB_UPPER_BOUNDS(build)

\* C11: a read-write openFile and a createFile hand the declared
\* [lowerBound, upperBound] window to the HDF5 call that opens or creates the
\* file; createFile asks for truncation and a file it created over an
\* existing one is empty; a read-only openFile sets no bounds and opens with
\* the default access settings.
Cex_C11 ==
  /\ (fcall.op = "openFile" /\ ~fcall.readOnly) => UsesDeclared("H5Fopen")
  /\ fcall.op = "createFile" =>
       /\ UsesDeclared("H5Fcreate")
       /\ \A i \in DOMAIN fcall.gw :
            fcall.gw[i].fn = "H5Fcreate" => fcall.gw[i].flags = "H5F_ACC_TRUNC"
       /\ fcall.ret >= 0 => disk[fcall.filename] = 0
  /\ (fcall.op = "openFile" /\ fcall.readOnly) =>
       \A i \in DOMAIN fcall.gw :
         /\ fcall.gw[i].fn # "H5Pset_libver_bounds"
         /\ fcall.gw[i].fn = "H5Fopen" => fcall.gw[i].fapl = H5P_DEFAULT

=============================================================================
